---- MODULE Spec2Model ----
(***************************************************************************)
(* Model of the sampling-and-metric pipeline of Home.py:                   *)
(*   processar_dados_complexos(df_input, sample_frac)   (lines 74-155)     *)
(*   executar_teste_estabilidade(df_input, sample_frac) (lines 240-301)    *)
(* A DataFrame is a sequence of records (rows in positional order).        *)
(* A nullable cell is a sequence of length <= 1: <<>> is NaN/NaT, <<v>> is *)
(* the value v.  sample_frac is held in hundredths (50 is frac = 0.50).    *)
(* A datetime is held as the integer YYYYMMDD that pandas assembles.       *)
(***************************************************************************)
EXTENDS Integers, Sequences, FiniteSets, TLC

VARIABLES df_input, colunas, colunas_dia, sample_frac,
          pc, erro, sorteou, estacoes_sorteadas, df_amostra, df_melted,
          dup_mes, len_antes_dia, dup_dia, df_final, retorno,
          seed_idx, df_melted_teste, df_resumo, resultados_temp, retorno_teste

vars == <<df_input, colunas, colunas_dia, sample_frac,
          pc, erro, sorteou, estacoes_sorteadas, df_amostra, df_melted,
          dup_mes, len_antes_dia, dup_dia, df_final, retorno,
          seed_idx, df_melted_teste, df_resumo, resultados_temp, retorno_teste>>

\* ---------------------------------------------------------------- bounds
MaxLinhas == 2
MaxLinhasAmostra == 4
MaxDupAnoCheio == 1

\* ------------------------------------------------------- generic helpers
NaN == <<>>

RECURSIVE Concat(_)
Concat(ss) == IF ss = <<>> THEN <<>> ELSE Head(ss) \o Concat(Tail(ss))

MaxDe(S) == CHOOSE x \in S : \A y \in S : y <= x
MinDe(S) == CHOOSE x \in S : \A y \in S : x <= y

\* Python round(): nearest integer, ties to the even one (num >= 0, den > 0)
RoundHalfEven(num, den) ==
    LET q == num \div den
        r == num % den
    IN  IF 2 * r < den THEN q
        ELSE IF 2 * r > den THEN q + 1
        ELSE IF q % 2 = 0 THEN q ELSE q + 1

\* ------------------------------------------------------------- calendar
\* get_dias_ano (and its copy get_dias_ano_teste)
get_dias_ano(ano) ==
    IF (ano % 4 = 0 /\ ano % 100 # 0) \/ (ano % 400 = 0) THEN 366 ELSE 365

get_dias_ano_teste(ano) ==
    IF (ano % 4 = 0 /\ ano % 100 # 0) \/ (ano % 400 = 0) THEN 366 ELSE 365

\* Gregorian calendar as pandas implements it
DiasNoMes(ano, mes) ==
    IF mes = 2
    THEN (IF (ano % 4 = 0 /\ ano % 100 # 0) \/ (ano % 400 = 0) THEN 29 ELSE 28)
    ELSE IF mes \in {4, 6, 9, 11} THEN 30 ELSE 31

RECURSIVE DiasAntesDoMes(_, _)
DiasAntesDoMes(ano, mes) ==
    IF mes <= 1 THEN 0
    ELSE DiasAntesDoMes(ano, mes - 1) + DiasNoMes(ano, mes - 1)

\* the same with no date refused
ToDatetimeSemValidar(ano, mes, dia) == <<ano * 10000 + mes * 100 + dia>>

\* pd.to_datetime(dict(year=, month=, day=), errors='coerce'): the three
\* columns are assembled into year*10000 + month*100 + day and that number
\* is parsed with the format %Y%m%d; what does not parse becomes NaT.
ToDatetime(ano, mes, dia) ==
    LET v == ano * 10000 + mes * 100 + dia
        y == v \div 10000
        m == (v % 10000) \div 100
        d == v % 100
    IN  IF /\ y \in 1678..2261
           /\ m \in 1..12
           /\ d >= 1
           /\ d <= DiasNoMes(y, m)
        THEN <<v>> ELSE NaN

\* proleptic Gregorian ordinal of a datetime held as YYYYMMDD
Ordinal(v) ==
    LET y == v \div 10000
        m == (v % 10000) \div 100
        d == v % 100
    IN  365 * (y - 1) + ((y - 1) \div 4) - ((y - 1) \div 100)
        + ((y - 1) \div 400) + DiasAntesDoMes(y, m) + d

\* (b - a).days
DiffDias(a, b) == Ordinal(b) - Ordinal(a)

\* exact rationals [num, den] in lowest terms stand for the floats
RECURSIVE MDC(_, _)
MDC(a, b) == IF b = 0 THEN a ELSE MDC(b, a % b)

Racional(num, den) ==
    LET g == MDC(num, den) IN [num |-> num \div g, den |-> den \div g]

RacSoma(a, b) == Racional(a.num * b.den + b.num * a.den, a.den * b.den)

\* the sum of s[lo..hi], halving the range
RECURSIVE RacSomaDe(_, _, _)
RacSomaDe(s, lo, hi) ==
    IF lo > hi THEN [num |-> 0, den |-> 1]
    ELSE IF lo = hi THEN s[lo]
    ELSE LET meio == (lo + hi) \div 2
         IN  RacSoma(RacSomaDe(s, lo, meio), RacSomaDe(s, meio + 1, hi))

RacSomaSeq(s) == RacSomaDe(s, 1, Len(s))

\* Series.mean(): NaN on an empty column
Media(s) ==
    IF s = <<>> THEN NaN
    ELSE LET t == RacSomaSeq(s) IN <<Racional(t.num, t.den * Len(s))>>

\* Series.round(2) of a non-negative value, held in hundredths
Round2(q) == RoundHalfEven(q.num * 100, q.den)

\* --------------------------------------------------- DataFrame operations
Projeta(df, cols) == [i \in 1..Len(df) |-> [c \in cols |-> df[i][c]]]

Chave(r, subset) == [c \in subset |-> r[c]]

\* the same with nothing removed
DropDuplicatesSem(df, subset) == df

\* DataFrame.drop_duplicates(subset=...): the first row of each key is kept
DropDuplicates(df, subset) ==
    LET pos == [i \in 1..Len(df) |-> i]
        chaves == [i \in 1..Len(df) |-> Chave(df[i], subset)]
        fica == SelectSeq(pos, LAMBDA i : \A j \in 1..(i - 1) : chaves[j] # chaves[i])
    IN  [k \in 1..Len(fica) |-> df[fica[k]]]

\* DataFrame.dropna(subset=[col])
DropNa(df, col) == SelectSeq(df, LAMBDA r : r[col] # NaN)

\* f'Chuva{i:02d}': the name is held as its two decimal digits
NomeColuna(i) == <<i \div 10, i % 10>>

\* .str.replace('Chuva', '').astype(int)
DiaDe(nome) == 10 * nome[1] + nome[2]

colunas_chuva == [i \in 1..31 |-> NomeColuna(i)]

ColunasExistentes(cols) == SelectSeq(colunas_chuva, LAMBDA c : c \in cols)

\* DataFrame.melt(id_vars, value_vars, var_name='Dia_str', value_name='Valor'):
\* one block of rows per value column, each block in the frame's row order
Melt(df, id_vars, value_vars) ==
    LET n == Len(df)
    IN  [k \in 1..(n * Len(value_vars)) |->
            LET col == value_vars[((k - 1) \div n) + 1]
                lin == df[((k - 1) % n) + 1]
            IN  [c \in id_vars |-> lin[c]]
                @@ ("Dia_str" :> col) @@ ("Valor" :> lin.Chuva[col])]

\* lines 100-102 and 271-273
Limpeza(df) ==
    LET limpo == DropNa(df, "Valor")
    IN  [i \in 1..Len(limpo) |-> limpo[i] @@ ("Dia" :> DiaDe(limpo[i].Dia_str))]

\* lines 105-111 and 276-280
CriaDataReal(df) ==
    DropNa([i \in 1..Len(df) |->
               df[i] @@ ("Data_Real" :> ToDatetime(df[i].Ano, df[i].Mes, df[i].Dia))],
           "Data_Real")

\* sort_values(['EstacaoCodigo', 'Data_Real'])
Ordena(df) ==
    SortSeq(df, LAMBDA a, b :
        \/ a.EstacaoCodigo < b.EstacaoCodigo
        \/ /\ a.EstacaoCodigo = b.EstacaoCodigo
           /\ a.Data_Real[1] < b.Data_Real[1])

\* the same with the state in the key
SemDuplicatasMesComEstado(df) ==
    DropDuplicates(df, {"estado", "EstacaoCodigo", "Ano", "Mes"})

\* lines 84 and 256
SemDuplicatasMes(df) == DropDuplicates(df, {"EstacaoCodigo", "Ano", "Mes"})

\* lines 115 and 283
SemDuplicatasDia(df) == DropDuplicates(df, {"EstacaoCodigo", "Data_Real"})

\* ------------------------------------------------------------- sampling
\* lines 76 and 249
EstacoesUnicas(df) ==
    DropDuplicates(Projeta(df, {"estado", "EstacaoCodigo"}), {"estado", "EstacaoCodigo"})

\* GroupBy.sample(frac=...): round(frac * group_size) rows of each group
TamanhoAmostra(frac, tamanho) == RoundHalfEven(frac * tamanho, 100)

\* the rows at the positions T, group after group (groups in key order).
\* pandas leaves a group's rows in draw order; a station code occurs once in
\* a group, so nothing downstream reads that order and one order stands for all
TomaGrupos(unicas, T) ==
    LET pos == SelectSeq([i \in 1..Len(unicas) |-> i], LAMBDA i : i \in T)
    IN  SortSeq([k \in 1..Len(pos) |-> unicas[pos[k]]], LAMBDA a, b :
            \/ a.estado < b.estado
            \/ a.estado = b.estado /\ a.EstacaoCodigo < b.EstacaoCodigo)

\* every outcome groupby('estado').sample(frac, random_state) can have: the
\* generator decides which rows of a group are drawn, never how many
Sorteios(unicas, frac) ==
    LET n == Len(unicas)
        doGrupo(e) == {i \in 1..n : unicas[i].estado = e}
        estados == {unicas[i].estado : i \in 1..n}
    IN  {TomaGrupos(unicas, T) : T \in {U \in SUBSET (1..n) :
            \A e \in estados :
                Cardinality(U \cap doGrupo(e))
                    = TamanhoAmostra(frac, Cardinality(doGrupo(e)))}}

\* lines 80 and 253: df_input[df_input['EstacaoCodigo'].isin(...)]
FiltraAmostra(df, sorteadas) ==
    SelectSeq(df, LAMBDA r :
        r.EstacaoCodigo \in {sorteadas[i].EstacaoCodigo : i \in 1..Len(sorteadas)})

\* ----------------------------------------------------------- aggregation
\* the keys of groupby(['EstacaoCodigo', 'Ano']), sorted
Grupos(df) ==
    SortSeq(DropDuplicates(Projeta(df, {"EstacaoCodigo", "Ano"}), {"EstacaoCodigo", "Ano"}),
            LAMBDA a, b :
                \/ a.EstacaoCodigo < b.EstacaoCodigo
                \/ a.EstacaoCodigo = b.EstacaoCodigo /\ a.Ano < b.Ano)

NoGrupo(r, g) == r.EstacaoCodigo = g.EstacaoCodigo /\ r.Ano = g.Ano

\* the position of the last row before i, at or before j, in the group of
\* row i; 0 when there is none
RECURSIVE Anterior(_, _, _)
Anterior(df, i, j) ==
    IF j = 0 THEN 0
    ELSE IF NoGrupo(df[j], df[i]) THEN j
    ELSE Anterior(df, i, j - 1)

\* the same difference taken without the grouping
DiffSemGrupo(df, i) ==
    IF i = 1 THEN NaN ELSE <<DiffDias(df[i - 1].Data_Real[1], df[i].Data_Real[1])>>

\* grupos['Data_Real'].diff().dt.days at row i: the distance to the previous
\* row of the same group, NaN on the group's first row
DiffNoGrupo(df, i) ==
    LET antes == Anterior(df, i, i - 1)
    IN  IF antes = 0 THEN NaN
        ELSE <<DiffDias(df[antes].Data_Real[1], df[i].Data_Real[1])>>

\* line 125
ComGap(df) == [i \in 1..Len(df) |-> df[i] @@ ("gap" :> DiffNoGrupo(df, i))]

\* the same with the NaN left in place
FillNaSem(x, v) == x

\* .fillna(v) on one cell
FillNa(x, v) == IF x = NaN THEN <<v>> ELSE x

\* lines 127-131: max, mean and min skip NaN and are NaN when nothing is left
ResumoIntervalos(df, g) ==
    LET gaps == SelectSeq([i \in 1..Len(df) |-> df[i]],
                          LAMBDA r : NoGrupo(r, g) /\ r.gap # NaN)
        vals == {gaps[i].gap[1] : i \in 1..Len(gaps)}
        medio == Media([i \in 1..Len(gaps) |-> [num |-> gaps[i].gap[1], den |-> 1]])
    IN  [Intervalo_Max   |-> FillNa(IF vals = {} THEN NaN ELSE <<MaxDe(vals)>>, 0),
         Intervalo_Medio |-> FillNa(medio, [num |-> 0, den |-> 1]),
         Intervalo_Min   |-> FillNa(IF vals = {} THEN NaN ELSE <<MinDe(vals)>>, 0)]

\* line 134 and line 286: grupos.size()
ContagemDias(df, g) == Cardinality({i \in 1..Len(df) : NoGrupo(df[i], g)})

\* lines 134-137: contagem_dias.join(resumo_intervalos).reset_index()
JuntaTudo(df) ==
    LET gs == Grupos(df)
    IN  [k \in 1..Len(gs) |->
            gs[k] @@ ("dias_com_dados" :> ContagemDias(df, gs[k]))
                  @@ ResumoIntervalos(df, gs[k])]

\* line 141: merge(estacoes_sorteadas, on='EstacaoCodigo', how='left'): one
\* output row per matching right row, a single row with NaN when none matches
MergeLinha(r, sorteadas) ==
    LET achados == SelectSeq(sorteadas, LAMBDA s : s.EstacaoCodigo = r.EstacaoCodigo)
    IN  IF achados = <<>> THEN <<r @@ ("estado" :> NaN)>>
        ELSE [k \in 1..Len(achados) |-> r @@ ("estado" :> <<achados[k].estado>>)]

MergeLeft(df, sorteadas) ==
    Concat([i \in 1..Len(df) |-> MergeLinha(df[i], sorteadas)])

\* lines 147-152; Completude_% and Intervalo_Medio are held in hundredths
CalculosFinais(df) ==
    [i \in 1..Len(df) |->
        LET r == df[i]
            total == get_dias_ano(r.Ano)
        IN  [EstacaoCodigo   |-> r.EstacaoCodigo,
             estado          |-> r.estado,
             Ano             |-> r.Ano,
             dias_com_dados  |-> r.dias_com_dados,
             Intervalo_Max   |-> r.Intervalo_Max,
             Intervalo_Min   |-> r.Intervalo_Min,
             Intervalo_Medio |-> IF r.Intervalo_Medio = NaN THEN NaN
                                 ELSE <<Round2(r.Intervalo_Medio[1])>>,
             total_dias_ano  |-> total,
             Completude_pct  |-> Round2(Racional(r.dias_com_dados * 100, total))]]

colunas_finais ==
    {"EstacaoCodigo", "estado", "Ano", "Completude_pct", "Intervalo_Max",
     "Intervalo_Medio", "dias_com_dados"}

\* lines 286-291: the reduced summary of the stability test
Resumo(df) ==
    LET gs == Grupos(df)
    IN  [k \in 1..Len(gs) |->
            LET dias == ContagemDias(df, gs[k])
                total == get_dias_ano_teste(gs[k].Ano)
            IN  gs[k] @@ ("dias_com_dados" :> dias)
                      @@ ("total_dias_ano" :> total)
                      @@ ("Completude_pct" :> Racional(dias * 100, total))]

seeds_para_testar == <<42, 1, 100, 2024, 999>>

\* ------------------------------------------------------------ the inputs
Obrigatorias == {"estado", "EstacaoCodigo", "Ano", "Mes"}

Linha(e, c, a, m, ch) ==
    [estado |-> e, EstacaoCodigo |-> c, Ano |-> a, Mes |-> m, Chuva |-> ch]

SeqsAte(S, n) == UNION {[1..k -> S] : k \in 0..n}

\* Spec: three daily columns, a leap and a common February and a December,
\* station 1 registered under two states
DiasSpec == {NomeColuna(1), NomeColuna(29), NomeColuna(31)}

ChuvasSpec ==
    {[c \in DiasSpec |-> IF c = NomeColuna(1) THEN <<0>> ELSE NaN],
     [c \in DiasSpec |-> <<0>>]}

LinhasSpec ==
    {Linha(p[1], p[2], am[1], am[2], ch) :
        p \in {<<1, 1>>, <<2, 1>>, <<2, 2>>},
        am \in {<<2023, 2>>, <<2024, 2>>, <<2024, 12>>},
        ch \in ChuvasSpec}

\* SpecAmostra: one reading per row, two stations under two states
DiasAmostra == {NomeColuna(1)}

LinhasAmostra ==
    {Linha(e, c, 2024, 12, [d \in DiasAmostra |-> <<0>>]) : e \in 1..2, c \in 1..2}

\* SpecAnoCheio: every day of a year of station 1, then repeated month rows
DiasAnoCheio == {NomeColuna(i) : i \in 1..31}

AnoCheio(e, a) == [m \in 1..12 |-> Linha(e, 1, a, m, [d \in DiasAnoCheio |-> <<0>>])]

LinhasRepetidas ==
    {Linha(e, 1, a, m, [d \in DiasAnoCheio |-> <<0>>]) :
        e \in 1..2, a \in {1900, 2000, 2023, 2024}, m \in {2}}

InitComum ==
    /\ pc = "amostragem"
    /\ erro = "nenhum"
    /\ sorteou = FALSE
    /\ estacoes_sorteadas = <<>>
    /\ df_amostra = <<>>
    /\ df_melted = <<>>
    /\ dup_mes = NaN
    /\ len_antes_dia = NaN
    /\ dup_dia = NaN
    /\ df_final = <<>>
    /\ retorno = NaN
    /\ seed_idx = 1
    /\ df_melted_teste = <<>>
    /\ df_resumo = <<>>
    /\ resultados_temp = <<>>
    /\ retorno_teste = NaN

Init ==
    /\ InitComum
    /\ colunas_dia = DiasSpec
    /\ \/ /\ colunas = Obrigatorias
          /\ sample_frac \in {50, 100}
          /\ df_input \in SeqsAte(LinhasSpec, MaxLinhas)
       \/ /\ colunas = Obrigatorias
          /\ sample_frac \in {-50, 0, 150}
          /\ df_input \in [1..1 -> LinhasSpec]
       \/ /\ colunas \in {Obrigatorias \ {c} : c \in Obrigatorias}
          /\ sample_frac = 100
          /\ df_input \in [1..1 -> LinhasSpec]

InitAmostra ==
    /\ InitComum
    /\ colunas_dia = DiasAmostra
    /\ colunas = Obrigatorias
    /\ sample_frac = 40
    /\ df_input \in SeqsAte(LinhasAmostra, MaxLinhasAmostra)

InitAnoCheio ==
    /\ InitComum
    /\ colunas_dia = DiasAnoCheio
    /\ colunas = Obrigatorias
    /\ sample_frac = 100
    /\ \E a \in {1900, 2000, 2023, 2024} :
       \E rep \in SeqsAte({l \in LinhasRepetidas : l.Ano = a}, MaxDupAnoCheio) :
          df_input = AnoCheio(1, a) \o rep

\* ----------------------------------------- processar_dados_complexos
varsTeste == <<seed_idx, df_melted_teste, df_resumo, resultados_temp, retorno_teste>>
varsEntrada == <<df_input, colunas, colunas_dia, sample_frac>>

\* an exception leaves the function: nothing is returned
Falha(e) ==
    /\ pc' = "erro"
    /\ erro' = e
    /\ UNCHANGED <<sorteou, estacoes_sorteadas, df_amostra, df_melted, dup_mes,
                   len_antes_dia, dup_dia, df_final, retorno>>

\* lines 76-77
Amostragem ==
    /\ pc = "amostragem"
    /\ IF ~({"estado", "EstacaoCodigo"} \subseteq colunas)
       THEN Falha("KeyError")
       ELSE LET unicas == EstacoesUnicas(df_input)
            IN  IF unicas # <<>> /\ (sample_frac > 100 \/ sample_frac < 0)
                THEN Falha("ValueError")
                ELSE /\ \E s \in Sorteios(unicas, sample_frac) :
                            estacoes_sorteadas' = s
                     /\ sorteou' = TRUE
                     /\ pc' = "filtra"
                     /\ UNCHANGED <<erro, df_amostra, df_melted, dup_mes,
                                    len_antes_dia, dup_dia, df_final, retorno>>
    /\ UNCHANGED <<varsEntrada, varsTeste>>

\* line 80
Filtra ==
    /\ pc = "filtra"
    /\ df_amostra' = FiltraAmostra(df_input, estacoes_sorteadas)
    /\ pc' = "dedup_mes"
    /\ UNCHANGED <<varsEntrada, varsTeste, erro, sorteou, estacoes_sorteadas,
                   df_melted, dup_mes, len_antes_dia, dup_dia, df_final, retorno>>

\* lines 83-85
DedupMes ==
    /\ pc = "dedup_mes"
    /\ IF ~({"Ano", "Mes"} \subseteq colunas)
       THEN Falha("KeyError")
       ELSE LET sem == SemDuplicatasMes(df_amostra)
            IN  /\ df_amostra' = sem
                /\ dup_mes' = <<Len(df_amostra) - Len(sem)>>
                /\ pc' = "melt"
                /\ UNCHANGED <<erro, sorteou, estacoes_sorteadas, df_melted,
                               len_antes_dia, dup_dia, df_final, retorno>>
    /\ UNCHANGED <<varsEntrada, varsTeste>>

\* lines 88-102
MeltLimpa ==
    /\ pc = "melt"
    /\ df_melted' = Limpeza(Melt(df_amostra, {"EstacaoCodigo", "estado", "Ano", "Mes"},
                                 ColunasExistentes(colunas_dia)))
    /\ pc' = "data_real"
    /\ UNCHANGED <<varsEntrada, varsTeste, erro, sorteou, estacoes_sorteadas,
                   df_amostra, dup_mes, len_antes_dia, dup_dia, df_final, retorno>>

\* lines 105-111
DataReal ==
    /\ pc = "data_real"
    /\ df_melted' = CriaDataReal(df_melted)
    /\ pc' = "dedup_dia"
    /\ UNCHANGED <<varsEntrada, varsTeste, erro, sorteou, estacoes_sorteadas,
                   df_amostra, dup_mes, len_antes_dia, dup_dia, df_final, retorno>>

\* lines 114-116
DedupDia ==
    /\ pc = "dedup_dia"
    /\ LET sem == SemDuplicatasDia(df_melted)
       IN  /\ len_antes_dia' = <<Len(df_melted)>>
           /\ df_melted' = sem
           /\ dup_dia' = <<Len(df_melted) - Len(sem)>>
    /\ pc' = "ordena"
    /\ UNCHANGED <<varsEntrada, varsTeste, erro, sorteou, estacoes_sorteadas,
                   df_amostra, dup_mes, df_final, retorno>>

\* line 119
Ordenacao ==
    /\ pc = "ordena"
    /\ df_melted' = Ordena(df_melted)
    /\ pc' = "calcula"
    /\ UNCHANGED <<varsEntrada, varsTeste, erro, sorteou, estacoes_sorteadas,
                   df_amostra, dup_mes, len_antes_dia, dup_dia, df_final, retorno>>

\* lines 122-137
Calcula ==
    /\ pc = "calcula"
    /\ LET com == ComGap(df_melted)
       IN  /\ df_melted' = com
           /\ df_final' = JuntaTudo(com)
    /\ pc' = "merge"
    /\ UNCHANGED <<varsEntrada, varsTeste, erro, sorteou, estacoes_sorteadas,
                   df_amostra, dup_mes, len_antes_dia, dup_dia, retorno>>

\* lines 141-155
MergeRetorna ==
    /\ pc = "merge"
    /\ LET fim == CalculosFinais(MergeLeft(df_final, estacoes_sorteadas))
       IN  /\ df_final' = fim
           /\ retorno' = <<[tabela |-> Projeta(fim, colunas_finais),
                            msg_duplicatas_mes |-> dup_mes[1],
                            msg_duplicatas_dia |-> dup_dia[1]]>>
    /\ pc' = "teste"
    /\ UNCHANGED <<varsEntrada, varsTeste, erro, sorteou, estacoes_sorteadas,
                   df_amostra, df_melted, dup_mes, len_antes_dia, dup_dia>>

\* --------------------------------------- executar_teste_estabilidade
varsProcessar == <<sorteou, estacoes_sorteadas, df_amostra, df_melted, dup_mes,
                   len_antes_dia, dup_dia, df_final, retorno>>

\* lines 253-283 of one iteration
NormalizaTeste(sorteadas) ==
    SemDuplicatasDia(
        CriaDataReal(Limpeza(Melt(
            SemDuplicatasMes(FiltraAmostra(df_input, sorteadas)),
            {"EstacaoCodigo", "Ano", "Mes"},
            ColunasExistentes(colunas_dia)))))

\* lines 247-299: one iteration of the loop over seeds_para_testar.  The draw
\* of random_state=42 over the same frame is the draw line 77 made.
TesteIteracao ==
    /\ pc = "teste"
    /\ seed_idx <= Len(seeds_para_testar)
    /\ IF ~(Obrigatorias \subseteq colunas)
       THEN /\ pc' = "erro"
            /\ erro' = "KeyError"
            /\ UNCHANGED varsTeste
       ELSE LET unicas == EstacoesUnicas(df_input)
            IN  IF unicas # <<>> /\ (sample_frac > 100 \/ sample_frac < 0)
                THEN /\ pc' = "erro"
                     /\ erro' = "ValueError"
                     /\ UNCHANGED varsTeste
                ELSE \E s \in (IF seeds_para_testar[seed_idx] = 42
                               THEN {estacoes_sorteadas}
                               ELSE Sorteios(unicas, sample_frac)) :
                        LET norm == NormalizaTeste(s)
                            res == Resumo(norm)
                            media_geral ==
                                Media([i \in 1..Len(res) |-> res[i].Completude_pct])
                        IN  /\ df_melted_teste' = norm
                            /\ df_resumo' = res
                            /\ resultados_temp' = Append(resultados_temp,
                                   [Random_State |-> seeds_para_testar[seed_idx],
                                    Media_Completude_pct |-> media_geral])
                            /\ seed_idx' = seed_idx + 1
                            /\ retorno_teste' = retorno_teste
                            /\ UNCHANGED <<pc, erro>>
    /\ UNCHANGED <<varsEntrada, varsProcessar>>

\* line 301
TesteRetorna ==
    /\ pc = "teste"
    /\ seed_idx > Len(seeds_para_testar)
    /\ retorno_teste' = <<resultados_temp>>
    /\ pc' = "fim"
    /\ UNCHANGED <<varsEntrada, varsProcessar, erro, seed_idx, df_melted_teste,
                   df_resumo, resultados_temp>>

Next ==
    \/ Amostragem
    \/ Filtra
    \/ DedupMes
    \/ MeltLimpa
    \/ DataReal
    \/ DedupDia
    \/ Ordenacao
    \/ Calcula
    \/ MergeRetorna
    \/ TesteIteracao
    \/ TesteRetorna

Spec == Init /\ [][Next]_vars

SpecAmostra == InitAmostra /\ [][Next]_vars

SpecAnoCheio == InitAnoCheio /\ [][Next]_vars

\* ----------------------------------------------------------- properties
\* the days of a year by the calendar itself (the twelve month lengths)
DiasDoCalendario(ano) == DiasAntesDoMes(ano, 13)

SemDataRepetida(df) ==
    \A i, j \in 1..Len(df) :
        (df[i].EstacaoCodigo = df[j].EstacaoCodigo /\ df[i].Data_Real = df[j].Data_Real)
            => i = j

Normalizado == pc \in {"calcula", "merge", "teste", "fim"}

\* C1: output A has exactly one row for each (EstacaoCodigo, Ano) pair that
\* has a valid observation in the sample, also when a station code occurs
\* under more than one estado.
C1_UmaLinhaPorEstacaoAno ==
    retorno # NaN =>
        LET t == retorno[1].tabela
        IN  /\ \A i, j \in 1..Len(t) :
                   (t[i].EstacaoCodigo = t[j].EstacaoCodigo /\ t[i].Ano = t[j].Ano)
                       => i = j
            /\ {<<t[i].EstacaoCodigo, t[i].Ano>> : i \in 1..Len(t)}
                   = {<<df_melted[i].EstacaoCodigo, df_melted[i].Ano>> :
                          i \in 1..Len(df_melted)}

\* C2: after the normalization stages no two observations share the same
\* (EstacaoCodigo, Data_Real), in processar_dados_complexos and in every
\* iteration of executar_teste_estabilidade.
C2_SemDatasDuplicadas ==
    /\ Normalizado => SemDataRepetida(df_melted)
    /\ SemDataRepetida(df_melted_teste)

\* C2 witness: month duplicates were in the sample and both functions have
\* normalized a non-empty set of observations
C2_Witness ==
    /\ pc = "teste"
    /\ seed_idx > 1
    /\ dup_mes[1] > 0
    /\ Len(df_melted) > 1
    /\ Len(df_melted_teste) > 1

\* C3: every row of output A has Completude_% >= 0 and dias_com_dados no
\* larger than the number of days of the row's year (366 in a leap year,
\* 365 otherwise).
C3_LimiteCompletude ==
    retorno # NaN =>
        \A i \in 1..Len(df_final) :
            /\ df_final[i].Completude_pct >= 0
            /\ df_final[i].dias_com_dados <= DiasDoCalendario(df_final[i].Ano)

\* C3 witness: a station-year with a reading on every day of the year, from
\* an input that repeats a month row
C3_Witness ==
    /\ retorno # NaN
    /\ dup_mes[1] > 0
    /\ \E i \in 1..Len(df_final) :
           df_final[i].dias_com_dados = DiasDoCalendario(df_final[i].Ano)

\* C4: after the filter on the sampled station codes, the number of distinct
\* stations of each estado in the sample is within one unit of
\* fraction * |distinct stations of the estado|.
C4_Estratificacao ==
    (pc = "dedup_mes" /\ sample_frac \in 1..100) =>
        \A e \in {df_input[i].estado : i \in 1..Len(df_input)} :
            LET todas == {df_input[i].EstacaoCodigo :
                              i \in {k \in 1..Len(df_input) : df_input[k].estado = e}}
                naAmostra == {df_amostra[i].EstacaoCodigo :
                                  i \in {k \in 1..Len(df_amostra) : df_amostra[k].estado = e}}
                desvio == 100 * Cardinality(naAmostra) - sample_frac * Cardinality(todas)
            IN  desvio <= 100 /\ desvio >= -100

\* C5: with a sampling fraction outside (0,1] sampling fails, nothing is
\* computed and neither function returns a table.
C5_FracaoInvalidaFalha ==
    (sample_frac \notin 1..100 /\ pc # "amostragem") =>
        /\ erro # "nenhum"
        /\ ~sorteou
        /\ retorno = NaN
        /\ retorno_teste = NaN

\* C6: a missing required column makes the pipeline fail before any station
\* sampling has run, never after it.
C6_FalhaAntesDaAmostragem ==
    erro = "KeyError" => ~sorteou

\* C7: a station-year group with exactly one observation has
\* Intervalo_Max = Intervalo_Min = Intervalo_Medio = 0 in the final table.
C7_GrupoDeUmaObservacao ==
    retorno # NaN =>
        \A i \in 1..Len(df_final) :
            df_final[i].dias_com_dados = 1 =>
                /\ df_final[i].Intervalo_Max = <<0>>
                /\ df_final[i].Intervalo_Min = <<0>>
                /\ df_final[i].Intervalo_Medio = <<0>>

\* C7 witness: the final table has a group of one observation
C7_Witness ==
    /\ retorno # NaN
    /\ \E i \in 1..Len(df_final) : df_final[i].dias_com_dados = 1

\* the observations of the station and year of row i that are earlier than it
MaisCedo(df, i) ==
    {j \in 1..Len(df) : /\ df[j].EstacaoCodigo = df[i].EstacaoCodigo
                        /\ df[j].Ano = df[i].Ano
                        /\ df[j].Data_Real[1] < df[i].Data_Real[1]}

\* C8: each gap is the number of days from the chronologically previous
\* observation of the same station and year (none for the first of a group);
\* so every gap is >= 1 and, in a group of two or more observations,
\* 1 <= Intervalo_Min <= Intervalo_Max <= days_in_year(Ano) - 1.
C8_GapsDentroDoGrupo ==
    pc \in {"merge", "teste", "fim"} =>
        /\ \A i \in 1..Len(df_melted) :
               LET cedo == MaisCedo(df_melted, i)
               IN  IF cedo = {} THEN df_melted[i].gap = NaN
                   ELSE /\ df_melted[i].gap # NaN
                        /\ df_melted[i].gap[1] >= 1
                        /\ \E j \in cedo :
                              /\ \A k \in cedo :
                                    df_melted[k].Data_Real[1] <= df_melted[j].Data_Real[1]
                              /\ df_melted[i].gap[1]
                                    = DiffDias(df_melted[j].Data_Real[1],
                                               df_melted[i].Data_Real[1])
        /\ \A i \in 1..Len(df_final) :
               df_final[i].dias_com_dados >= 2 =>
                   /\ 1 <= df_final[i].Intervalo_Min[1]
                   /\ df_final[i].Intervalo_Min[1] <= df_final[i].Intervalo_Max[1]
                   /\ df_final[i].Intervalo_Max[1]
                          <= DiasDoCalendario(df_final[i].Ano) - 1

\* C8 witness: a group of two or more observations beside another group
C8_Witness ==
    /\ pc = "fim"
    /\ Len(df_final) >= 2
    /\ \E i \in 1..Len(df_final) : df_final[i].dias_com_dados >= 2

\* C9: the day de-duplication never removes an observation: the count
\* reported in msg_duplicatas_dia is 0.
C9_SemDuplicatasDeDia ==
    /\ dup_dia # NaN => dup_dia[1] = 0
    /\ retorno # NaN => retorno[1].msg_duplicatas_dia = 0

\* C9 witness: month duplicates were removed, invalid dates were dropped and
\* the day de-duplication has run over observations
C9_Witness ==
    /\ retorno # NaN
    /\ dup_mes[1] > 0
    /\ len_antes_dia[1] > 1

\* C10: the stability table's entry for seed 42 equals the unweighted mean
\* of the Completude_% column of output A.
C10_MediaDaSeed42 ==
    pc = "fim" =>
        LET t == retorno[1].tabela
        IN  resultados_temp[1].Media_Completude_pct
                = Media([i \in 1..Len(t) |-> Racional(t[i].Completude_pct, 100)])

====
